---- MODULE Spec2Model ----
(***************************************************************************)
(* Shortbread API (backend/main.py): a FastAPI application with two GET    *)
(* endpoints, /health and /, behind a CORSMiddleware that allow-lists two  *)
(* front-end origins.  The model follows one request from the moment the   *)
(* server accepts it, through the CORS middleware, the router and the      *)
(* endpoint, to the moment the response leaves; several requests are in    *)
(* flight at once and their steps interleave.                              *)
(*                                                                         *)
(* A path is the sequence of its "/"-separated pieces, as path.split("/")  *)
(* gives them: "/health" is <<"", "health">>, "/" is <<"", "">> and        *)
(* "/health/" is <<"", "health", "">>.  A comma-separated header value is  *)
(* the sequence of its items.  Header names are in lower case.             *)
(*                                                                         *)
(* main.py only constructs and configures the application; what the        *)
(* router and the CORS middleware do with a request is the behaviour of    *)
(* the FastAPI / Starlette classes it instantiates (FastAPI, APIRoute,     *)
(* CORSMiddleware), modelled here operator by operator under the names     *)
(* those classes use.                                                      *)
(***************************************************************************)
EXTENDS Integers, Sequences, FiniteSets, Bags, TLC

VARIABLES app, inflight

vars == <<app, inflight>>

\* Number of requests the server handles concurrently in the model.
MaxInFlight == 2

NoHeaders == [h \in {} |-> ""]

HealthPath == <<"", "health">>
RootPath == <<"", "">>
DocsPath == <<"", "docs">>
HealthSlashPath == <<"", "health", "">>
NonexistentPath == <<"", "nonexistent">>

Origin3000 == "http://localhost:3000"
Origin5173 == "http://localhost:5173"
OtherOrigin == "http://evil.example"

----------------------------------------------------------------------------
(* The application object and its configuration.                           *)

\* Routes registered on the application: the two decorated endpoints, and
\* the documentation routes FastAPI() adds when docs_url, redoc_url and
\* openapi_url keep their defaults (those also answer HEAD).
routes ==
    { [path |-> HealthPath, methods |-> {"GET"}, endpoint |-> "health_check"],
      [path |-> RootPath, methods |-> {"GET"}, endpoint |-> "root"],
      [path |-> <<"", "openapi.json">>, methods |-> {"GET", "HEAD"},
       endpoint |-> "openapi"],
      [path |-> DocsPath, methods |-> {"GET", "HEAD"},
       endpoint |-> "swagger_ui_html"],
      [path |-> <<"", "docs", "oauth2-redirect">>, methods |-> {"GET", "HEAD"},
       endpoint |-> "swagger_ui_redirect"],
      [path |-> <<"", "redoc">>, methods |-> {"GET", "HEAD"},
       endpoint |-> "redoc_html"] }

\* app = FastAPI(...) followed by app.add_middleware(CORSMiddleware, ...).
AppInit ==
    [ title |-> "Shortbread API",
      version |-> "1.0.0",
      allow_origins |-> {Origin3000, Origin5173},
      allow_credentials |-> TRUE,
      allow_methods |-> <<"*">>,
      allow_headers |-> <<"*">>,
      redirect_slashes |-> TRUE,
      routes |-> routes ]

----------------------------------------------------------------------------
(* Endpoints.                                                              *)

health_check_stale ==
    [status |-> "healthy", message |-> "Shortbread API is running",
     version |-> "0.9.0"]

health_check ==
    [status |-> "healthy", message |-> "Shortbread API is running",
     version |-> "1.0.0"]

root_extra ==
    [message |-> "Welcome to Shortbread API", version |-> "1.0.0"]

root ==
    [message |-> "Welcome to Shortbread API"]

Response(code, body, headers) ==
    [status_code |-> code, body |-> body, headers |-> headers]

\* What the endpoint of a matched route answers.
CallEndpoint(name) ==
    CASE name = "health_check" -> Response(200, health_check, NoHeaders)
      [] name = "root" -> Response(200, root, NoHeaders)
      [] name = "openapi" -> Response(200, [openapi |-> "3.1.0"], NoHeaders)
      [] OTHER -> Response(200, [html |-> name], NoHeaders)

----------------------------------------------------------------------------
(* Routing.                                                                *)

RECURSIVE rstrip_slash(_)
rstrip_slash(p) ==
    IF Len(p) > 1 /\ p[Len(p)] = ""
    THEN rstrip_slash(SubSeq(p, 1, Len(p) - 1))
    ELSE p

\* The path the router tries when nothing matched: the same path with the
\* trailing slash removed or added.
RedirectPath(p) ==
    IF p[Len(p)] = "" THEN rstrip_slash(p) ELSE Append(p, "")

Router_fallback(a, req) ==
    LET full == {rt \in a.routes : rt.path = req.path /\ req.method \in rt.methods}
    IN  IF full # {}
        THEN CallEndpoint((CHOOSE rt \in full : TRUE).endpoint)
        ELSE CallEndpoint("root")

Router_any_method(a, req) ==
    LET match == {rt \in a.routes : rt.path = req.path}
    IN  IF match # {}
        THEN CallEndpoint((CHOOSE rt \in match : TRUE).endpoint)
        ELSE Response(404, [detail |-> "Not Found"], NoHeaders)

\* The router: a route whose path and method match is called; a route whose
\* path matches but not its method answers 405; a path that matches a route
\* once its trailing slash is toggled is redirected; anything else is 404.
Router(a, req) ==
    LET full == {rt \in a.routes : rt.path = req.path /\ req.method \in rt.methods}
        partial == {rt \in a.routes : rt.path = req.path /\ req.method \notin rt.methods}
    IN  IF full # {}
        THEN CallEndpoint((CHOOSE rt \in full : TRUE).endpoint)
        ELSE IF partial # {}
        THEN Response(405, [detail |-> "Method Not Allowed"],
                      "allow" :> (CHOOSE rt \in partial : TRUE).methods)
        ELSE IF /\ a.redirect_slashes
                /\ req.path # RootPath
                /\ \E rt \in a.routes : rt.path = RedirectPath(req.path)
        THEN Response(307, [text |-> ""], "location" :> RedirectPath(req.path))
        ELSE Response(404, [detail |-> "Not Found"], NoHeaders)

----------------------------------------------------------------------------
(* CORSMiddleware, as configured by app.add_middleware.                    *)

Items(s) == {s[i] : i \in DOMAIN s}

ALL_METHODS == <<"DELETE", "GET", "HEAD", "OPTIONS", "PATCH", "POST", "PUT">>

SAFELISTED_HEADERS ==
    {"accept", "accept-language", "content-language", "content-type"}

\* allow_methods=["*"] stands for the methods of ALL_METHODS.
cors_allow_methods(a) ==
    IF "*" \in Items(a.allow_methods) THEN ALL_METHODS ELSE a.allow_methods

cors_allow_headers(a) == SAFELISTED_HEADERS \cup Items(a.allow_headers)

allow_all_origins(a) == "*" \in a.allow_origins

allow_all_headers_off(a) == FALSE

allow_all_headers(a) == "*" \in Items(a.allow_headers)

preflight_explicit_allow_origin(a) ==
    ~allow_all_origins(a) \/ a.allow_credentials

\* Headers added to every response to a request that carries an Origin.
simple_headers(a) ==
    (IF allow_all_origins(a)
     THEN "access-control-allow-origin" :> "*" ELSE NoHeaders)
    @@ (IF a.allow_credentials
        THEN "access-control-allow-credentials" :> "true" ELSE NoHeaders)

\* Headers every preflight response starts from.
preflight_headers(a) ==
    (IF preflight_explicit_allow_origin(a)
     THEN "vary" :> "Origin"
     ELSE "access-control-allow-origin" :> "*")
    @@ ("access-control-allow-methods" :> cors_allow_methods(a))
    @@ ("access-control-max-age" :> "600")
    @@ (IF ~allow_all_headers(a)
        THEN "access-control-allow-headers" :> cors_allow_headers(a)
        ELSE NoHeaders)
    @@ (IF a.allow_credentials
        THEN "access-control-allow-credentials" :> "true" ELSE NoHeaders)

is_allowed_origin_any(a, origin) == TRUE

is_allowed_origin(a, origin) ==
    allow_all_origins(a) \/ origin \in a.allow_origins

\* A preflight is the OPTIONS request that names the method it asks for.
IsPreflight(req) ==
    /\ req.method = "OPTIONS"
    /\ "access-control-request-method" \in DOMAIN req.headers

preflight_response_lenient(a, request_headers) ==
    Response(200, [text |-> "OK"],
             ("access-control-allow-origin" :> request_headers["origin"])
             @@ preflight_headers(a))

\* The middleware answers a preflight itself: 200 "OK" when the origin, the
\* requested method and the requested headers are all allowed, 400 with the
\* list of what is not allowed otherwise.
preflight_response(a, request_headers) ==
    LET requested_origin == request_headers["origin"]
        requested_method == request_headers["access-control-request-method"]
        has_requested_headers ==
            "access-control-request-headers" \in DOMAIN request_headers
        requested_headers == request_headers["access-control-request-headers"]
        origin_ok == is_allowed_origin(a, requested_origin)
        method_ok == requested_method \in Items(cors_allow_methods(a))
        headers_ok ==
            \/ allow_all_headers(a)
            \/ ~has_requested_headers
            \/ Items(requested_headers) \subseteq cors_allow_headers(a)
        headers ==
            (IF origin_ok /\ preflight_explicit_allow_origin(a)
             THEN "access-control-allow-origin" :> requested_origin
             ELSE NoHeaders)
            @@ (IF allow_all_headers(a) /\ has_requested_headers
                THEN "access-control-allow-headers" :> requested_headers
                ELSE NoHeaders)
            @@ preflight_headers(a)
        failures ==
            (IF origin_ok THEN <<>> ELSE <<"origin">>)
            \o (IF method_ok THEN <<>> ELSE <<"method">>)
            \o (IF headers_ok THEN <<>> ELSE <<"headers">>)
    IN  IF failures # <<>>
        THEN Response(400,
                      [text |-> "Disallowed CORS headers", failures |-> failures],
                      headers)
        ELSE Response(200, [text |-> "OK"], headers)

\* headers["Access-Control-Allow-Origin"] = origin, and Vary names Origin.
allow_explicit_origin(headers, origin) ==
    ("access-control-allow-origin" :> origin) @@ ("vary" :> "Origin") @@ headers

\* The wrapper around send for a request with an Origin that is not a
\* preflight: it adds the cross-origin headers to the response on its way out.
send(a, message, request_headers) ==
    LET headers == simple_headers(a) @@ message.headers
        origin == request_headers["origin"]
        has_cookie == "cookie" \in DOMAIN request_headers
    IN  [message EXCEPT !.headers =
            IF allow_all_origins(a) /\ has_cookie
            THEN allow_explicit_origin(headers, origin)
            ELSE IF ~allow_all_origins(a) /\ is_allowed_origin(a, origin)
            THEN allow_explicit_origin(headers, origin)
            ELSE headers]

----------------------------------------------------------------------------
(* Requests the clients send.                                              *)

Request(method, path, headers) ==
    [method |-> method, path |-> path, headers |-> headers]

OriginHeader(o) == "origin" :> o

Origins == {Origin3000, Origin5173, OtherOrigin}

Paths == {HealthPath, RootPath, NonexistentPath, HealthSlashPath, DocsPath}

GetRequests ==
    { Request("GET", p, h) :
        p \in Paths, h \in {NoHeaders} \cup {OriginHeader(o) : o \in Origins} }

OtherMethodRequests ==
    { Request(m, p, NoHeaders) :
        m \in {"POST", "PUT", "DELETE", "PATCH"}, p \in {HealthPath, RootPath} }
    \cup { Request("POST", HealthPath, OriginHeader(o)) :
             o \in {Origin3000, OtherOrigin} }

RequestedHeaders ==
    {NoHeaders, "access-control-request-headers" :> <<"x-custom", "authorization">>}

PreflightRequests ==
    { Request("OPTIONS", HealthPath,
              OriginHeader(o) @@ ("access-control-request-method" :> m) @@ h) :
        o \in {Origin3000, Origin5173}, m \in {"GET", "PUT", "TRACE"},
        h \in RequestedHeaders }
    \cup { Request("OPTIONS", HealthPath,
                   OriginHeader(OtherOrigin)
                   @@ ("access-control-request-method" :> "GET") @@ h) :
             h \in RequestedHeaders }

OptionsRequests ==
    { Request("OPTIONS", HealthPath, NoHeaders),
      Request("OPTIONS", HealthPath, OriginHeader(Origin3000)),
      Request("OPTIONS", HealthPath, "access-control-request-method" :> "GET") }

Requests ==
    GetRequests \cup OtherMethodRequests \cup PreflightRequests \cup OptionsRequests

----------------------------------------------------------------------------
(* The server: requests in flight and the steps of handling each.          *)

NoResponse == Response(0, [text |-> ""], NoHeaders)

Entry(req, stage, resp) == [req |-> req, stage |-> stage, resp |-> resp]

InFlight == BagToSet(inflight)

Replace(e, f) == (inflight (-) SetToBag({e})) (+) SetToBag({f})

Init ==
    /\ app = AppInit
    /\ inflight = EmptyBag

\* The server accepts a request and hands it to the application.
Receive(req) ==
    /\ BagCardinality(inflight) < MaxInFlight
    /\ inflight' = inflight (+) SetToBag({Entry(req, "received", NoResponse)})
    /\ UNCHANGED app

PassThrough_mutating(e) ==
    /\ e.stage = "received"
    /\ "origin" \notin DOMAIN e.req.headers
    /\ inflight' = Replace(e, Entry(e.req, "done", Router(app, e.req)))
    /\ app' = [app EXCEPT !.redirect_slashes = FALSE]

\* CORSMiddleware.__call__, no Origin header: the request goes to the
\* application untouched and the response comes back untouched.
PassThrough(e) ==
    /\ e.stage = "received"
    /\ "origin" \notin DOMAIN e.req.headers
    /\ inflight' = Replace(e, Entry(e.req, "done", Router(app, e.req)))
    /\ UNCHANGED app

\* CORSMiddleware.__call__, preflight: the middleware answers itself.
Preflight(e) ==
    /\ e.stage = "received"
    /\ "origin" \in DOMAIN e.req.headers
    /\ IsPreflight(e.req)
    /\ inflight' = Replace(e, Entry(e.req, "done",
                                    preflight_response(app, e.req.headers)))
    /\ UNCHANGED app

SimpleResponse_counting(e) ==
    /\ e.stage = "received"
    /\ "origin" \in DOMAIN e.req.headers
    /\ ~IsPreflight(e.req)
    /\ LET r == Router(app, e.req)
       IN  inflight' = Replace(e, Entry(e.req, "handled",
               IF r.body = health_check
               THEN [r EXCEPT !.body.version = app.version]
               ELSE r))
    /\ app' = [app EXCEPT !.version = "1.0.1"]

\* CORSMiddleware.__call__, any other request with an Origin: the
\* application handles it and its response waits for the send wrapper.
SimpleResponse(e) ==
    /\ e.stage = "received"
    /\ "origin" \in DOMAIN e.req.headers
    /\ ~IsPreflight(e.req)
    /\ inflight' = Replace(e, Entry(e.req, "handled", Router(app, e.req)))
    /\ UNCHANGED app

\* The send wrapper adds the cross-origin headers and the response leaves
\* the application.
Send(e) ==
    /\ e.stage = "handled"
    /\ inflight' = Replace(e, Entry(e.req, "done",
                                    send(app, e.resp, e.req.headers)))
    /\ UNCHANGED app

\* The client has read the response; the connection is closed.
Deliver(e) ==
    /\ e.stage = "done"
    /\ inflight' = inflight (-) SetToBag({e})
    /\ UNCHANGED app

Next ==
    \/ \E req \in Requests : Receive(req)
    \/ \E e \in InFlight : PassThrough(e)
    \/ \E e \in InFlight : Preflight(e)
    \/ \E e \in InFlight : SimpleResponse(e)
    \/ \E e \in InFlight : Send(e)
    \/ \E e \in InFlight : Deliver(e)

Spec == Init /\ [][Next]_vars

Done == {e \in InFlight : e.stage = "done"}

TypeOK ==
    /\ BagCardinality(inflight) <= MaxInFlight
    /\ \A e \in InFlight : e.req \in Requests

----------------------------------------------------------------------------
(* Properties.                                                             *)

HasOrigin(req) == "origin" \in DOMAIN req.headers

OriginOf(req) == req.headers["origin"]

ListedOrigins == {"http://localhost:3000", "http://localhost:5173"}

HealthBody ==
    [status |-> "healthy", message |-> "Shortbread API is running",
     version |-> "1.0.0"]

WelcomeBody == [message |-> "Welcome to Shortbread API"]

StandardMethods == {"DELETE", "GET", "HEAD", "OPTIONS", "PATCH", "POST", "PUT"}

\* C1: every GET /health, with or without an Origin header and whatever
\* else the server is handling or has handled, is answered 200 with a body
\* of exactly the three fields status = "healthy", message = "Shortbread
\* API is running", version = "1.0.0".
C1_HealthAlways200 ==
    \A e \in Done :
        (e.req.method = "GET" /\ e.req.path = HealthPath) =>
            /\ e.resp.status_code = 200
            /\ DOMAIN e.resp.body = {"status", "message", "version"}
            /\ e.resp.body.status = "healthy"
            /\ e.resp.body.message = "Shortbread API is running"
            /\ e.resp.body.version = "1.0.0"

\* A GET /health from a foreign origin has been answered while the answer
\* to another request is still held.
C1_Witness ==
    \E e \in Done :
        /\ e.req.method = "GET" /\ e.req.path = HealthPath
        /\ HasOrigin(e.req) /\ OriginOf(e.req) = OtherOrigin
        /\ e.resp.status_code = 200
        /\ \E f \in Done : f.req # e.req

\* C2: every GET / is answered 200 with the body {"message": "Welcome to
\* Shortbread API"} and no other field.
C2_RootAlways200 ==
    \A e \in Done :
        (e.req.method = "GET" /\ e.req.path = RootPath) =>
            /\ e.resp.status_code = 200
            /\ DOMAIN e.resp.body = {"message"}
            /\ e.resp.body.message = "Welcome to Shortbread API"

C2_Witness ==
    \E e \in Done :
        /\ e.req.method = "GET" /\ e.req.path = RootPath
        /\ e.resp.status_code = 200
        /\ \E f \in Done : f.req.path = HealthPath

\* C3 as stated: a request from an allow-listed origin gets the
\* allow-origin header naming that origin and the allow-credentials header;
\* a request from any other origin gets neither of the two headers.
C3_Original ==
    \A e \in Done :
        HasOrigin(e.req) =>
            IF OriginOf(e.req) \in ListedOrigins
            THEN /\ "access-control-allow-origin" \in DOMAIN e.resp.headers
                 /\ e.resp.headers["access-control-allow-origin"] = OriginOf(e.req)
                 /\ "access-control-allow-credentials" \in DOMAIN e.resp.headers
                 /\ e.resp.headers["access-control-allow-credentials"] = "true"
            ELSE /\ "access-control-allow-origin" \notin DOMAIN e.resp.headers
                 /\ "access-control-allow-credentials" \notin DOMAIN e.resp.headers

\* C3 amended: a request from an allow-listed origin gets the allow-origin
\* header naming that origin and allow-credentials "true"; a request from
\* any other origin gets no allow-origin header, while allow-credentials
\* "true" is still attached to its response.
C3_AllowOriginOnlyForListed ==
    \A e \in Done :
        HasOrigin(e.req) =>
            /\ "access-control-allow-credentials" \in DOMAIN e.resp.headers
            /\ e.resp.headers["access-control-allow-credentials"] = "true"
            /\ IF OriginOf(e.req) \in ListedOrigins
               THEN /\ "access-control-allow-origin" \in DOMAIN e.resp.headers
                    /\ e.resp.headers["access-control-allow-origin"] = OriginOf(e.req)
               ELSE "access-control-allow-origin" \notin DOMAIN e.resp.headers

\* Both kinds of origin have been answered: a listed one and a foreign one.
C3_Witness ==
    /\ \E e \in Done :
          /\ HasOrigin(e.req) /\ OriginOf(e.req) \in ListedOrigins
          /\ "access-control-allow-origin" \in DOMAIN e.resp.headers
    /\ \E e \in Done :
          /\ HasOrigin(e.req) /\ OriginOf(e.req) \notin ListedOrigins
          /\ "access-control-allow-credentials" \in DOMAIN e.resp.headers

\* C4 as stated: no request carrying a non-allow-listed Origin, simple GET
\* or preflight, is served a 200 response.
C4_Original ==
    \A e \in Done :
        (HasOrigin(e.req) /\ OriginOf(e.req) \notin ListedOrigins) =>
            e.resp.status_code # 200

\* C4 amended: a preflight carrying a non-allow-listed Origin is rejected
\* with status 400 and "origin" among the reasons; a GET of /health or /
\* carrying a non-allow-listed Origin is still served the endpoint's 200
\* response, only without an allow-origin header.
C4_ForeignOriginPreflightRejected ==
    \A e \in Done :
        (HasOrigin(e.req) /\ OriginOf(e.req) \notin ListedOrigins) =>
            /\ "access-control-allow-origin" \notin DOMAIN e.resp.headers
            /\ IsPreflight(e.req) =>
                  (e.resp.status_code = 400 /\ e.resp.body.failures[1] = "origin")
            /\ (e.req.method = "GET" /\ e.req.path = HealthPath) =>
                  (e.resp.status_code = 200 /\ e.resp.body = HealthBody)
            /\ (e.req.method = "GET" /\ e.req.path = RootPath) =>
                  (e.resp.status_code = 200 /\ e.resp.body = WelcomeBody)

\* A foreign origin has had both a preflight and a simple GET answered.
C4_Witness ==
    /\ \E e \in Done :
          /\ HasOrigin(e.req) /\ OriginOf(e.req) = OtherOrigin
          /\ IsPreflight(e.req) /\ e.resp.status_code = 400
    /\ \E e \in Done :
          /\ HasOrigin(e.req) /\ OriginOf(e.req) = OtherOrigin
          /\ e.req.method = "GET" /\ e.req.path = RootPath
          /\ e.resp.status_code = 200

\* C5 as stated: a GET of any path other than /health and / is answered
\* with the "not found" status and with neither endpoint body.
C5_Original ==
    \A e \in Done :
        (e.req.method = "GET" /\ e.req.path \notin {HealthPath, RootPath}) =>
            /\ e.resp.status_code = 404
            /\ e.resp.body \notin {HealthBody, WelcomeBody}

\* C5 amended: a GET of a path other than /health and / never gets either
\* endpoint body; it is answered 404 Not Found, unless the path is one of
\* the documentation routes FastAPI registers by default (/docs, /redoc,
\* /openapi.json, /docs/oauth2-redirect), answered 200 with documentation
\* content, or is a registered path with its trailing slash added or
\* removed (such as /health/), answered with a 307 redirect to that path.
C5_UnknownPathNotFound ==
    \A e \in Done :
        (e.req.method = "GET" /\ e.req.path \notin {HealthPath, RootPath}) =>
            /\ e.resp.body \notin {HealthBody, WelcomeBody}
            /\ IF e.req.path \in {<<"", "docs">>, <<"", "redoc">>,
                                  <<"", "openapi.json">>,
                                  <<"", "docs", "oauth2-redirect">>}
               THEN e.resp.status_code = 200
               ELSE IF e.req.path = <<"", "health", "">>
               THEN /\ e.resp.status_code = 307
                    /\ e.resp.headers["location"] = HealthPath
               ELSE /\ e.resp.status_code = 404
                    /\ e.resp.body = [detail |-> "Not Found"]

\* GET /nonexistent has been answered 404.
C5_Witness ==
    \E e \in Done :
        /\ e.req.method = "GET" /\ e.req.path = NonexistentPath
        /\ e.resp.status_code = 404

\* C6: the same request to /health or / answered several times, with
\* other requests handled in between, gets identical JSON bodies.
C6_Idempotent ==
    \A e, f \in Done :
        (/\ e.req = f.req
         /\ e.req.method = "GET"
         /\ e.req.path \in {HealthPath, RootPath}) =>
            e.resp.body = f.resp.body

\* The same GET /health has been answered twice and both answers are held.
C6_Witness ==
    \E e \in Done :
        /\ e.req.method = "GET" /\ e.req.path = HealthPath
        /\ CopiesIn(e, inflight) >= 2

\* The response a request gets when it is the only one the freshly started
\* application handles.
HandledAlone(req) ==
    IF ~HasOrigin(req) THEN Router(AppInit, req)
    ELSE IF IsPreflight(req) THEN preflight_response(AppInit, req.headers)
    ELSE send(AppInit, Router(AppInit, req), req.headers)

\* C7: under every interleaving of the requests in flight, each answered
\* request has the response it would get if handled alone, and the
\* application object shared by the handlers is as it was at start-up.
C7_HandlersIndependent ==
    /\ app = AppInit
    /\ \A e \in Done : e.resp = HandledAlone(e.req)

\* Two different requests to the endpoints were in flight together and
\* both have been answered.
C7_Witness ==
    \E e, f \in Done :
        /\ e.req.method = "GET" /\ e.req.path = HealthPath
        /\ f.req.method = "GET" /\ f.req.path = RootPath
        /\ HasOrigin(f.req)

RequestedMethod(req) == req.headers["access-control-request-method"]

\* C8 as stated: a preflight from an allow-listed origin is accepted
\* whatever method and headers it asks for.
C8_Original ==
    \A e \in Done :
        (/\ IsPreflight(e.req) /\ HasOrigin(e.req)
         /\ OriginOf(e.req) \in ListedOrigins) =>
            e.resp.status_code = 200

\* C8 amended: a preflight from an allow-listed origin that asks for one of
\* DELETE, GET, HEAD, OPTIONS, PATCH, POST, PUT is accepted (200 "OK",
\* credentials allowed, the requested headers echoed as allowed) whatever
\* headers it asks for; one that asks for any other method is answered 400
\* with "method" as the only reason.
C8_PreflightStandardMethodsAccepted ==
    \A e \in Done :
        (/\ IsPreflight(e.req) /\ HasOrigin(e.req)
         /\ OriginOf(e.req) \in ListedOrigins) =>
            IF RequestedMethod(e.req) \in StandardMethods
            THEN /\ e.resp.status_code = 200
                 /\ e.resp.body = [text |-> "OK"]
                 /\ e.resp.headers["access-control-allow-credentials"] = "true"
                 /\ e.resp.headers["access-control-allow-origin"] = OriginOf(e.req)
                 /\ Items(e.resp.headers["access-control-allow-methods"])
                       = StandardMethods
                 /\ ("access-control-request-headers" \in DOMAIN e.req.headers) =>
                       /\ "access-control-allow-headers" \in DOMAIN e.resp.headers
                       /\ e.resp.headers["access-control-allow-headers"]
                             = e.req.headers["access-control-request-headers"]
            ELSE /\ e.resp.status_code = 400
                 /\ e.resp.body.failures = <<"method">>

\* A preflight from a listed origin asking for PUT with custom headers has
\* been accepted.
C8_Witness ==
    \E e \in Done :
        /\ IsPreflight(e.req) /\ HasOrigin(e.req)
        /\ OriginOf(e.req) \in ListedOrigins
        /\ RequestedMethod(e.req) = "PUT"
        /\ "access-control-request-headers" \in DOMAIN e.req.headers
        /\ e.resp.status_code = 200

\* C9: a request to /health or / with method POST, PUT, DELETE or PATCH is
\* never answered 200 nor with the endpoint's JSON body.
C9_OnlyGetServed ==
    \A e \in Done :
        (/\ e.req.method \in {"POST", "PUT", "DELETE", "PATCH"}
         /\ e.req.path \in {HealthPath, RootPath}
         /\ ~IsPreflight(e.req)) =>
            /\ e.resp.status_code # 200
            /\ e.resp.body \notin {HealthBody, WelcomeBody}

\* A POST to /health has been answered "method not allowed".
C9_Witness ==
    \E e \in Done :
        /\ e.req.method = "POST" /\ e.req.path = HealthPath
        /\ e.resp.status_code = 405

====
